---- MODULE Spec2Model ----
(***************************************************************************)
(* A model of Amulet-Core's chunk translation engine                       *)
(*   src/amulet/world_interface/chunk/translators/__init__.py              *)
(* and of the LevelDB chunk-version table                                  *)
(*   src/amulet/world_interface/chunk/interfaces/leveldb/                  *)
(*       leveldb_chunk_versions.py                                         *)
(*                                                                         *)
(* Five specifications share the variables:                                *)
(*   Spec   the translation engine (Translator.to_universal,               *)
(*          Translator.from_universal, Translator._translate and the       *)
(*          get_block_at closure it hands to the block rules);             *)
(*   VSpec  chunk_to_game_version and game_to_chunk_version;               *)
(*   BSpec  Translator._biomes_to_universal / _biomes_from_universal;      *)
(*   RSpec  a chunk taken to the universal format and back;                *)
(*   LSpec  the engine with block rules that call get_block_at.            *)
(***************************************************************************)
EXTENDS Integers, Sequences, FiniteSets, TLC

VARIABLES
    \* ---- the chunk and its palette (arguments of the translate calls) ----
    chunk_blocks,            \* chunk.blocks: grid coordinate -> palette slot (0-based)
    chunk_block_entities,    \* chunk.block_entities: sequence of block entities
    chunk_biomes,            \* chunk.biomes: [shape, data]
    chunk_c,                 \* <<chunk.cx, chunk.cz>>
    palette,                 \* the palette paired with the chunk (slot i is palette[i+1])
    \* ---- the running translate call ----
    pc,                      \* "idle" | "context" | "done" | "error"
    direction,               \* "to" | "from" | "none"
    get_chunk_callback,      \* TRUE iff a neighbour resolver was supplied
    version,                 \* the version's rules: [block: layer id -> [out, be, extra], block_entity_map]
    todo,                    \* coordinates of deferred slots still to translate
    finished,                \* BlockManager contents: sequence of blocks
    palette_mappings,        \* dict old slot -> new slot, as <<old, new>> in insertion order
    block_mappings,          \* dict coordinate -> new slot, as <<coord, new>> in insertion order
    output_block_entities,   \* the rebuilt block-entity list
    lookup,                  \* what the last get_block_at call computed
    \* ---- observations of the calls (history) ----
    hist,                    \* one record per call: its arguments and input grid/palette
    cf,                      \* context-free pass: per input slot, what translate returned
    ca,                      \* context-aware pass: <<coord, block>> per deferred coordinate
    ret,                     \* what the call returned: "none" | "result" | "raised"
    \* ---- biome recoding ----
    biome_to, biome_from,    \* version.biome.to_universal / from_universal
    unique_inverse_shaped,   \* numpy.unique(return_inverse=True) keeps the input's shape
    biome_calls,             \* invocations of the mapping function by the last recoding
    biome_in,                \* the array before the first recoding
    b_pc,                    \* "new" | "universal" | "back"
    \* ---- the version table's functions ----
    max_game_version, chunk_version, v_result, v_pc

vars == << chunk_blocks, chunk_block_entities, chunk_biomes, chunk_c, palette,
           pc, direction, get_chunk_callback, version, todo, finished,
           palette_mappings, block_mappings, output_block_entities, lookup,
           hist, cf, ca, ret,
           biome_to, biome_from, unique_inverse_shaped, biome_calls, biome_in, b_pc,
           max_game_version, chunk_version, v_result, v_pc >>

engine_vars == << chunk_blocks, chunk_block_entities, chunk_c, palette,
                  pc, direction, get_chunk_callback, version, todo, finished,
                  palette_mappings, block_mappings, output_block_entities, lookup,
                  hist, cf, ca, ret >>

biome_vars == << chunk_biomes, biome_to, biome_from, unique_inverse_shaped,
                 biome_calls, biome_in, b_pc >>

version_vars == << max_game_version, chunk_version, v_result, v_pc >>

(***************************************************************************)
(* Generic helpers                                                         *)
(***************************************************************************)
Range(s) == { s[k] : k \in 1..Len(s) }

Min(S) == CHOOSE m \in S : \A n \in S : m <= n

RECURSIVE SortedSeq(_)
SortedSeq(S) == IF S = {} THEN << >>
                ELSE LET m == Min(S) IN << m >> \o SortedSeq(S \ {m})

\* index of the first occurrence of v in s (v must occur)
IndexOf(s, v) == Min({ k \in 1..Len(s) : s[k] = v })

(***************************************************************************)
(* The chunk-version table (VSpec)                                         *)
(***************************************************************************)
\* Python's order on tuples: lexicographic, a proper prefix being smaller.
RECURSIVE TupleLE(_, _)
TupleLE(a, b) ==
    IF a = << >> THEN TRUE
    ELSE IF b = << >> THEN FALSE
    ELSE IF a[1] # b[1] THEN a[1] < b[1]
    ELSE TupleLE(Tail(a), Tail(b))

chunk_version_to_max_version ==
    << << <<0, 9, 0, 0>>,  <<0, 9, 1, 9999>> >>,
       << <<0, 9, 2, 0>>,  <<0, 9, 4, 9999>> >>,
       << <<0, 9, 5, 0>>,  <<0, 16, 999, 9999>> >>,
       << <<0, 17, 0, 0>>, <<0, 17, 999, 9999>> >>,
       << <<0, 18, 0, 0>>, <<0, 18, 0, 0>> >>,
       << <<0, 18, 0, 0>>, <<1, 1, 999, 9999>> >>,
       << <<1, 2, 0, 0>>,  <<1, 2, 0, 0>> >>,
       << <<1, 2, 0, 0>>,  <<1, 2, 999, 9999>> >>,
       << <<1, 3, 0, 0>>,  <<1, 7, 999, 9999>> >>,
       << <<1, 8, 0, 0>>,  <<1, 8, 999, 9999>> >>,
       << <<1, 9, 0, 0>>,  <<1, 9, 999, 9999>> >>,
       << <<1, 10, 0, 0>>, <<1, 10, 999, 9999>> >>,
       << <<1, 11, 0, 0>>, <<1, 11, 0, 9999>> >>,
       << <<1, 11, 1, 0>>, <<1, 11, 1, 9999>> >>,
       << <<1, 11, 2, 0>>, <<1, 11, 999, 999>> >>,
       << <<1, 12, 0, 0>>, <<999, 999, 999, 9999>> >> >>

\* the table's keys 0..15, in insertion order; key k is entry k+1 of the sequence
ChunkVersions == { k - 1 : k \in 1..Len(chunk_version_to_max_version) }
TableFirst(cv) == chunk_version_to_max_version[cv + 1][1]
TableLast(cv)  == chunk_version_to_max_version[cv + 1][2]

\* a plausible slip: the minimum taken component by component
chunk_to_game_version_componentwise(mgv, cv) ==
    [ k \in 1..Len(mgv) |-> IF TableLast(cv)[k] <= mgv[k] THEN TableLast(cv)[k] ELSE mgv[k] ]

\* min(chunk_version_to_max_version[chunk_version][1], max_game_version)
chunk_to_game_version(mgv, cv) ==
    IF TupleLE(TableLast(cv), mgv) THEN TableLast(cv) ELSE mgv

NoVersion == -1      \* Python's None: the loop ends without a return

RECURSIVE ScanFrom(_, _)
ScanFrom(cv, gv) ==
    IF cv \notin ChunkVersions THEN NoVersion
    ELSE IF TupleLE(TableFirst(cv), gv) /\ TupleLE(gv, TableLast(cv)) THEN cv
    ELSE ScanFrom(cv + 1, gv)

\* a plausible slip: the scan runs from the newest chunk version down
RECURSIVE ScanDownFrom(_, _)
ScanDownFrom(cv, gv) ==
    IF cv \notin ChunkVersions THEN NoVersion
    ELSE IF TupleLE(TableFirst(cv), gv) /\ TupleLE(gv, TableLast(cv)) THEN cv
    ELSE ScanDownFrom(cv - 1, gv)

game_to_chunk_version_descending(gv) == ScanDownFrom(Len(chunk_version_to_max_version) - 1, gv)

game_to_chunk_version(gv) == ScanFrom(0, gv)

\* the game versions the model feeds in: every table boundary is among them
VMajor == {0, 1, 2}
VMinor == {1, 2, 3, 9, 11, 12, 16, 18, 20}
VPatch == {0, 1, 2, 999, 1000}
VRev   == {0, 999, 1000, 9999}
GameVersions == { <<a, b, c, d>> : a \in VMajor, b \in VMinor, c \in VPatch, d \in VRev }

VInit ==
    /\ max_game_version \in GameVersions
    /\ chunk_version \in ChunkVersions
    /\ v_result = << >>
    /\ v_pc = "new"

ChunkToGameVersion ==
    /\ v_pc = "new"
    /\ v_result' = chunk_to_game_version(max_game_version, chunk_version)
    /\ v_pc' = "chunk_to_game"
    /\ UNCHANGED << max_game_version, chunk_version >>

GameToChunkVersion ==
    /\ v_pc = "new"
    /\ v_result' = game_to_chunk_version(max_game_version)
    /\ v_pc' = "game_to_chunk"
    /\ UNCHANGED << max_game_version, chunk_version >>

(***************************************************************************)
(* Biome recoding (BSpec, and the pre/post step of the translate calls)    *)
(***************************************************************************)
MaxBiome == 2
BiomeIds == 0..(MaxBiome - 1)
BiomeMaps == [BiomeIds -> BiomeIds]
BiomeShapes == { <<2, 2>>, <<1, 3>>, <<4>> }

RECURSIVE Product(_)
Product(shape) == IF shape = << >> THEN 1 ELSE shape[1] * Product(Tail(shape))

\* an array is its shape and its cells in row-major order
BiomeArrays == UNION { [shape : {sh}, data : [1..Product(sh) -> BiomeIds]] : sh \in BiomeShapes }

\* numpy.unique(biome_array, return_inverse=True): the sorted distinct values, and
\* for every cell (row-major) the index of its value among them.  The inverse is
\* flat under NumPy 1.x and has the input's shape from NumPy 2 on; `shaped` says which.
numpy_unique(arr, shaped) ==
    LET biome_palette == SortedSeq(Range(arr.data))
    IN  [ biome_palette |-> biome_palette,
          biome_compact_array |->
              [ shape |-> IF shaped THEN arr.shape ELSE << Len(arr.data) >>,
                data  |-> [ k \in 1..Len(arr.data) |-> IndexOf(biome_palette, arr.data[k]) ] ] ]

\* universal_biome_palette[biome_compact_array]: the result has the index array's shape
Recode(map, arr, shaped) ==
    LET u == numpy_unique(arr, shaped)
        universal_biome_palette ==
            [ k \in 1..Len(u.biome_palette) |-> map[u.biome_palette[k]] ]
    IN  [ shape |-> u.biome_compact_array.shape,
          data  |-> [ k \in 1..Len(u.biome_compact_array.data) |->
                        universal_biome_palette[u.biome_compact_array.data[k]] ] ]

\* the list comprehension calls the mapping once per entry of biome_palette
RecodeCalls(arr, shaped) == Len(numpy_unique(arr, shaped).biome_palette)

biomes_to_universal(arr)   == Recode(biome_to, arr, unique_inverse_shaped)
biomes_from_universal(arr) == Recode(biome_from, arr, unique_inverse_shaped)

BInit ==
    /\ chunk_biomes \in BiomeArrays
    /\ biome_to \in BiomeMaps
    /\ biome_from \in BiomeMaps
    /\ unique_inverse_shaped \in BOOLEAN
    /\ biome_calls = 0
    /\ biome_in = chunk_biomes
    /\ b_pc = "new"

BiomesToUniversal ==
    /\ b_pc = "new"
    /\ chunk_biomes' = biomes_to_universal(chunk_biomes)
    /\ biome_calls' = RecodeCalls(chunk_biomes, unique_inverse_shaped)
    /\ b_pc' = "universal"
    /\ UNCHANGED << biome_to, biome_from, unique_inverse_shaped, biome_in >>

BiomesFromUniversal ==
    /\ b_pc = "universal"
    /\ chunk_biomes' = biomes_from_universal(chunk_biomes)
    /\ biome_calls' = RecodeCalls(chunk_biomes, unique_inverse_shaped)
    /\ b_pc' = "back"
    /\ UNCHANGED << biome_to, biome_from, unique_inverse_shaped, biome_in >>

(***************************************************************************)
(* The translation engine: data                                            *)
(***************************************************************************)
MaxPalette == 2       \* palette slots

\* the block identifiers, and the layerings (base block, extra blocks) the palettes hold
LayerIds == {1, 2}
Layerings == { << 1 >>, << 2 >>, << 1, 2 >> }

\* What a palette holds, and what translate returns as its block: a Block (its
\* base_block followed by its extra_blocks), an Entity, or None.
Block(layers) == [ kind |-> "Block", layers |-> layers ]
EntityObj == [ kind |-> "Entity", layers |-> << >> ]
NoneObj == [ kind |-> "None", layers |-> << >> ]

Blocks == { Block(l) : l \in Layerings }
PaletteEntries == Blocks \cup { EntityObj }

\* palettes hold no block twice (numpy.unique / BlockManager build them)
Palettes == { p \in UNION { [1..n -> PaletteEntries] : n \in 1..MaxPalette } :
                \A i, j \in 1..Len(p) : i # j => p[i] # p[j] }

\* the grid coordinates (x, y, z) the model tracks, in numpy.where's (row-major) order
CellSeq == << <<14, 0, 0>>, <<15, 0, 0>> >>
Cells == Range(CellSeq)
ChunkCoords == { <<2, 5>>, <<-1, 0>> }

ChunkWidth == 16

\* version.block.to_universal / from_universal, called for one layer, returns
\* (output_object, output_block_entity, extra): out = 0 is an Entity output object,
\* be says whether a companion block entity came with it.
EntityOut == 0
\* (the companion of an Entity output is never read, so it is left out)
RuleResults == { r \in [ out : {EntityOut} \cup LayerIds, be : BOOLEAN, extra : BOOLEAN ] :
                   r.out = EntityOut => ~r.be }
RuleTables == [LayerIds -> RuleResults]
IdentityRules(rl) == \A id \in LayerIds : rl[id].out = id

\* block entities: a position and a name; "Chest" is a bare name (no namespace)
BlockEntity(x, y, z, name, of) == [ x |-> x, y |-> y, z |-> z, name |-> name, of |-> of ]
NoBlockEntity == BlockEntity(0, 0, 0, "None", 0)
block_entity_map == [ n \in {"Chest"} |-> "universal:chest" ]
block_entity_map_inverse == [ n \in {"universal:chest"} |-> "Chest" ]
\* the companion a rule returns for a layer it translated to block `out`
Companion(out) == BlockEntity(0, 0, 0, "universal:chest", out)

new_at_location(be, x, y, z) == [ be EXCEPT !.x = x, !.y = y, !.z = z ]

(***************************************************************************)
(* The per-block translate wrappers of to_universal and from_universal     *)
(***************************************************************************)
\* One layer through the version's block rule.  Without a callback the rule
\* answers from its table.  With one, the answer for a context-dependent layer
\* depends on the neighbours: it is the block `pick`.
RuleCall(rl, id, with_callback, pick) ==
    IF with_callback /\ rl[id].extra
    THEN [ rl[id] EXCEPT !.out = pick ]
    ELSE rl[id]

\* (layer_extra and layer_be keep the flag and the output_block_entity each layer's
\* rule call returned)
NoResult == [ raised |-> FALSE, block |-> NoneObj, be |-> NoBlockEntity,
              entities |-> << >>, extra |-> FALSE, layer_extra |-> << >>,
              layer_be |-> << >> ]

\* a plausible slip: the flag of the last layer wins
LayerExtraLast(final_extra, extra) == extra

\* final_extra |= extra
LayerExtra(final_extra, extra) == final_extra \/ extra

\* a plausible slip: every layer may set the companion
LayerBlockEntityAny(depth, final_be, output_be) == output_be

\* if depth == 0: final_block_entity = output_block_entity
LayerBlockEntity(depth, final_be, output_be) ==
    IF depth = 0 THEN output_be ELSE final_be

\* the loop over (base_block,) + extra_blocks, from layer k on
RECURSIVE TranslateLayers(_, _, _, _, _, _)
TranslateLayers(rl, layers, with_callback, picks, k, acc) ==
    IF k > Len(layers) THEN acc
    ELSE LET r == RuleCall(rl, layers[k], with_callback, picks[k])
             depth == k - 1
             output_be == IF r.be THEN Companion(r.out) ELSE NoBlockEntity
             merged ==
                 IF r.out # EntityOut
                 THEN [ acc EXCEPT
                          !.block = IF acc.block = NoneObj
                                    THEN Block(<< r.out >>)
                                    ELSE Block(acc.block.layers \o << r.out >>),
                          !.be = LayerBlockEntity(depth, acc.be, output_be) ]
                 ELSE [ acc EXCEPT !.entities = Append(acc.entities, EntityObj) ]
         IN  TranslateLayers(rl, layers, with_callback, picks, k + 1,
                             [ merged EXCEPT !.extra = LayerExtra(acc.extra, r.extra),
                                             !.layer_extra = Append(acc.layer_extra, r.extra),
                                             !.layer_be = Append(acc.layer_be, output_be) ])

TranslateBlock(rl, input_object, with_callback, picks) ==
    TranslateLayers(rl, input_object.layers, with_callback, picks, 1, NoResult)

\* a plausible slip: to_universal skips an Entity as from_universal does
to_universal_translate_skipping(rl, input_object, with_callback, picks) ==
    IF input_object.kind = "Block"
    THEN TranslateBlock(rl, input_object, with_callback, picks)
    ELSE NoResult

\* to_universal's translate: an Entity raises NotImplementedError
to_universal_translate(rl, input_object, with_callback, picks) ==
    IF input_object.kind = "Block"
    THEN TranslateBlock(rl, input_object, with_callback, picks)
    ELSE IF input_object.kind = "Entity"
    THEN [ NoResult EXCEPT !.raised = TRUE ]
    ELSE NoResult

\* from_universal's translate: an Entity is skipped (pass)
from_universal_translate(rl, input_object, with_callback, picks) ==
    IF input_object.kind = "Block"
    THEN TranslateBlock(rl, input_object, with_callback, picks)
    ELSE NoResult

translate(dir, rl, input_object, with_callback, picks) ==
    IF dir = "to"
    THEN to_universal_translate(rl, input_object, with_callback, picks)
    ELSE from_universal_translate(rl, input_object, with_callback, picks)

\* the context-free call passes no callback: every layer answers from the table
NoPicks(input_object) == [ k \in 1..Len(input_object.layers) |-> 1 ]

(***************************************************************************)
(* Translator._translate                                                   *)
(***************************************************************************)
\* BlockManager.get_add_block: the slot of the block, appended if it is new
get_add_block(fin, block) ==
    IF block \in Range(fin)
    THEN [ index |-> IndexOf(fin, block) - 1, blocks |-> fin ]
    ELSE [ index |-> Len(fin), blocks |-> Append(fin, block) ]

\* zip(*numpy.where(chunk.blocks == i)): the coordinates holding slot i, in order
Where(blocks, i) == SelectSeq(CellSeq, LAMBDA c : blocks[c] = i)

\* output_block_entity.new_at_location(x + chunk.cx * 16, y, z + chunk.cz * 16)
PlacedAt(be, c, cc) ==
    new_at_location(be, c[1] + cc[1] * ChunkWidth, c[2], c[3] + cc[2] * ChunkWidth)

\* if extra and get_chunk_callback: todo.append(i)
Deferred(extra, cb) == extra /\ cb

\* a plausible slip: the old slot number is kept as the new one
AcceptedSlotKept(i, g) == i

\* a plausible slip: the size of the new palette is taken for the slot
AcceptedSlotCount(i, g) == Len(g.blocks)

\* palette_mappings[i] = finished.get_add_block(output_block)
AcceptedSlot(i, g) == g.index

\* what the context-free pass got for a slot, and whether it deferred the slot
Observed(r, deferred) ==
    [ block |-> r.block, be |-> r.be, entities |-> r.entities, extra |-> r.extra,
      layer_extra |-> r.layer_extra, layer_be |-> r.layer_be, deferred |-> deferred ]

PassStart == [ raised |-> FALSE, todo |-> << >>, finished |-> << >>,
               palette_mappings |-> << >>, output_block_entities |-> << >>, cf |-> << >> ]

\* the loop over enumerate(palette), from slot i on (lines 92-109)
RECURSIVE ContextFreePass(_, _, _, _, _, _, _, _)
ContextFreePass(dir, rl, cb, blocks, cc, pal, i, st) ==
    IF i >= Len(pal) THEN st
    ELSE LET input_block == pal[i + 1]
             r == translate(dir, rl, input_block, FALSE, NoPicks(input_block))
         IN  IF r.raised THEN [ st EXCEPT !.raised = TRUE ]
             ELSE IF Deferred(r.extra, cb)
             THEN ContextFreePass(dir, rl, cb, blocks, cc, pal, i + 1,
                      [ st EXCEPT !.todo = Append(@, i),
                                  !.cf = Append(@, Observed(r, TRUE)) ])
             ELSE LET g == get_add_block(st.finished, r.block)
                      w == Where(blocks, i)
                  IN  ContextFreePass(dir, rl, cb, blocks, cc, pal, i + 1,
                          [ st EXCEPT
                              !.finished = g.blocks,
                              !.palette_mappings = Append(@, << i, AcceptedSlot(i, g) >>),
                              !.output_block_entities =
                                  IF r.be # NoBlockEntity
                                  THEN @ \o [ k \in 1..Len(w) |-> PlacedAt(r.be, w[k], cc) ]
                                  ELSE @,
                              !.cf = Append(@, Observed(r, FALSE)) ])

\* the coordinates the context-aware pass visits: for index in todo, for x, y, z in where
RECURSIVE Worklist(_, _)
Worklist(blocks, slots) ==
    IF slots = << >> THEN << >>
    ELSE Where(blocks, Head(slots)) \o Worklist(blocks, Tail(slots))

\* for old, new in palette_mappings.items(): chunk.blocks[chunk.blocks == old] = new
RECURSIVE ApplyPaletteMappings(_, _)
ApplyPaletteMappings(blocks, pm) ==
    IF pm = << >> THEN blocks
    ELSE ApplyPaletteMappings(
             [ c \in DOMAIN blocks |-> IF blocks[c] = Head(pm)[1] THEN Head(pm)[2] ELSE blocks[c] ],
             Tail(pm))

\* for (x, y, z), new in block_mappings.items(): chunk.blocks[x, y, z] = new
RECURSIVE ApplyBlockMappings(_, _)
ApplyBlockMappings(blocks, bm) ==
    IF bm = << >> THEN blocks
    ELSE ApplyBlockMappings([ blocks EXCEPT ![Head(bm)[1]] = Head(bm)[2] ], Tail(bm))

\* a plausible slip: the coordinate-level remaps are applied first
CommitBlocksCoordinatesFirst(blocks, pm, bm) ==
    ApplyPaletteMappings(ApplyBlockMappings(blocks, bm), pm)

\* lines 186-189
CommitBlocks(blocks, pm, bm) ==
    ApplyBlockMappings(ApplyPaletteMappings(blocks, pm), bm)

(***************************************************************************)
(* Block-entity aliasing, before (to_universal) and after (from_universal) *)
(***************************************************************************)
AliasToUniversal(bes, has_map) ==
    IF ~has_map THEN bes
    ELSE [ k \in 1..Len(bes) |->
             IF bes[k].name \in DOMAIN block_entity_map
             THEN [ bes[k] EXCEPT !.name = block_entity_map[bes[k].name] ]
             ELSE bes[k] ]

AliasFromUniversal(bes, has_map) ==
    IF ~has_map THEN bes
    ELSE [ k \in 1..Len(bes) |->
             IF bes[k].name \in DOMAIN block_entity_map_inverse
             THEN [ bes[k] EXCEPT !.name = block_entity_map_inverse[bes[k].name] ]
             ELSE bes[k] ]

(***************************************************************************)
(* The engine's state machine (Spec)                                       *)
(***************************************************************************)
IdleVersion == [ block |-> [ id \in LayerIds |-> [ out |-> id, be |-> FALSE, extra |-> FALSE ] ],
                 block_entity_map |-> FALSE ]
Versions == [ block : RuleTables, block_entity_map : BOOLEAN ]

NoLookup == [ valid |-> FALSE, at |-> <<0, 0, 0>>, pos |-> <<0, 0, 0>>, cc |-> <<0, 0>>,
              abs |-> <<0, 0, 0>>, delta |-> <<0, 0>>, index |-> <<0, 0, 0>>,
              resolver |-> << >>, block |-> NoneObj, be |-> NoBlockEntity ]

\* the offsets the block rules ask get_block_at for
Offsets == { <<1, 0, 0>>, <<-1, 0, 0>>, <<-33, 0, -1>> }
\* the block a neighbouring chunk holds at the probed place
NeighbourBlocks == { Block(<< 1 >>) }

\* the block entity the chunk holds when the first call is made
PriorBlockEntities(cc) ==
    { << BlockEntity(14 + cc[1] * ChunkWidth, 0, cc[2] * ChunkWidth, "Chest", 0) >> }

EngineInit ==
    /\ palette \in Palettes
    /\ chunk_blocks \in [Cells -> 0..(Len(palette) - 1)]
    /\ chunk_c \in ChunkCoords
    /\ chunk_block_entities \in PriorBlockEntities(chunk_c)
    /\ pc = "idle"
    /\ direction = "none"
    /\ get_chunk_callback = FALSE
    /\ version = IdleVersion
    /\ todo = << >>
    /\ finished = << >>
    /\ palette_mappings = << >>
    /\ block_mappings = << >>
    /\ output_block_entities = << >>
    /\ lookup = NoLookup
    /\ hist = << >>
    /\ cf = << >>
    /\ ca = << >>
    /\ ret = "none"

\* the identifiers of the palette's layers
UsedIds(pal) == UNION { Range(pal[k].layers) : k \in 1..Len(pal) }

\* The rules of a version, for a call on palette pal.  The entries for identifiers
\* the palette does not hold are never read: they are fixed.
VersionsFor(pal) ==
    { ver \in Versions :
        \A id \in LayerIds \ UsedIds(pal) : ver.block[id] = IdleVersion.block[id] }

\* the call's arguments and the grid, palette and block entities it was given
CallRecord(dir, ver, cb, full) ==
    [ dir |-> dir, full |-> full, cb |-> cb, identity |-> IdentityRules(ver.block),
      context_free |-> \A id \in UsedIds(palette) : ~ver.block[id].extra,
      blocks |-> chunk_blocks, palette |-> palette, block_entities |-> chunk_block_entities ]

\* _translate's last lines and what follows the call in to_universal / from_universal:
\* the grid is rewritten, the block-entity list replaced, the palette returned; on
\* from_universal the palette is packed, the biomes recoded, the block entities aliased.
Return(dir, has_map, pm, bm, obe, fin) ==
    /\ chunk_blocks' = CommitBlocks(chunk_blocks, pm, bm)
    /\ palette' = fin
    /\ chunk_block_entities' = IF dir = "from" THEN AliasFromUniversal(obe, has_map) ELSE obe
    /\ pc' = "done"
    /\ ret' = "result"
    /\ todo' = << >>
    /\ version' = IdleVersion
    /\ lookup' = NoLookup

RecodeAfter(dir) ==
    IF dir = "from"
    THEN /\ chunk_biomes' = biomes_from_universal(chunk_biomes)
         /\ biome_calls' = RecodeCalls(chunk_biomes, unique_inverse_shaped)
    ELSE UNCHANGED << chunk_biomes, biome_calls >>

\* full_translate = False: _translate returns chunk and palette as they are
ShallowCall(dir, ver, cb) ==
    /\ pc \in {"idle", "done"}
    /\ hist' = Append(hist, CallRecord(dir, ver, cb, FALSE))
    /\ direction' = dir
    /\ get_chunk_callback' = cb
    /\ IF dir = "to"
       THEN /\ chunk_biomes' = biomes_to_universal(chunk_biomes)
            /\ chunk_block_entities' = AliasToUniversal(chunk_block_entities, ver.block_entity_map)
       ELSE /\ chunk_biomes' = biomes_from_universal(chunk_biomes)
            /\ chunk_block_entities' = AliasFromUniversal(chunk_block_entities, ver.block_entity_map)
    /\ biome_calls' = RecodeCalls(chunk_biomes, unique_inverse_shaped)
    /\ pc' = "done"
    /\ ret' = "result"
    /\ cf' = << >>
    /\ ca' = << >>
    /\ finished' = << >>
    /\ palette_mappings' = << >>
    /\ block_mappings' = << >>
    /\ output_block_entities' = << >>
    /\ UNCHANGED << chunk_blocks, chunk_c, palette, version, todo, lookup >>
    /\ UNCHANGED << biome_to, biome_from, unique_inverse_shaped, biome_in, b_pc >>
    /\ UNCHANGED version_vars

\* full_translate = True: the steps before _translate, the context-free pass, and,
\* when no slot was deferred, the commit and the steps after _translate
DeepCall(dir, ver, cb) ==
    /\ pc \in {"idle", "done"}
    /\ hist' = Append(hist, CallRecord(dir, ver, cb, TRUE))
    /\ direction' = dir
    /\ get_chunk_callback' = cb
    /\ ca' = << >>
    /\ block_mappings' = << >>
    /\ LET prior == IF dir = "to"
                    THEN AliasToUniversal(chunk_block_entities, ver.block_entity_map)
                    ELSE chunk_block_entities
           st == ContextFreePass(dir, ver.block, cb, chunk_blocks, chunk_c, palette, 0, PassStart)
       IN  /\ cf' = st.cf
           /\ finished' = st.finished
           /\ palette_mappings' = st.palette_mappings
           /\ output_block_entities' = st.output_block_entities
           /\ IF st.raised
              THEN \* NotImplementedError leaves _translate and the call
                   /\ pc' = "error"
                   /\ ret' = "raised"
                   /\ chunk_block_entities' = prior
                   /\ chunk_biomes' = biomes_to_universal(chunk_biomes)
                   /\ biome_calls' = RecodeCalls(chunk_biomes, unique_inverse_shaped)
                   /\ todo' = << >>
                   /\ version' = ver
                   /\ UNCHANGED << chunk_blocks, palette, lookup >>
              ELSE IF Worklist(chunk_blocks, st.todo) = << >>
              THEN /\ Return(dir, ver.block_entity_map, st.palette_mappings, << >>,
                             st.output_block_entities, st.finished)
                   /\ IF dir = "to"
                      THEN /\ chunk_biomes' = biomes_to_universal(chunk_biomes)
                           /\ biome_calls' = RecodeCalls(chunk_biomes, unique_inverse_shaped)
                      ELSE RecodeAfter(dir)
              ELSE /\ pc' = "context"
                   /\ ret' = "none"
                   /\ todo' = Worklist(chunk_blocks, st.todo)
                   /\ version' = ver
                   /\ chunk_block_entities' = prior
                   /\ IF dir = "to"
                      THEN /\ chunk_biomes' = biomes_to_universal(chunk_biomes)
                           /\ biome_calls' = RecodeCalls(chunk_biomes, unique_inverse_shaped)
                      ELSE UNCHANGED << chunk_biomes, biome_calls >>
                   /\ UNCHANGED << chunk_blocks, palette, lookup >>
    /\ UNCHANGED << chunk_c, biome_to, biome_from, unique_inverse_shaped, biome_in, b_pc >>
    /\ UNCHANGED version_vars

\* one call on a freshly decoded chunk
ToUniversal ==
    /\ pc = "idle"
    /\ \E ver \in VersionsFor(palette), cb \in BOOLEAN :
          \/ DeepCall("to", ver, cb)
          \/ ShallowCall("to", ver, cb)

FromUniversal ==
    /\ pc = "idle"
    /\ \E ver \in VersionsFor(palette), cb \in BOOLEAN :
          \/ DeepCall("from", ver, cb)
          \/ ShallowCall("from", ver, cb)

\* a chunk loaded and saved again: a deep to_universal, then a deep from_universal
\* on what it returned, neither with a neighbour resolver
RoundTripVersions ==
    { ver \in Versions : /\ ~ver.block_entity_map
                         /\ \A id \in LayerIds : /\ ~ver.block[id].be
                                                 /\ ver.block[id].out # EntityOut
                         /\ \A i, j \in LayerIds : ver.block[i].extra = ver.block[j].extra }

LoadChunk ==
    /\ pc = "idle"
    /\ \E ver \in RoundTripVersions : DeepCall("to", ver, FALSE)

SaveChunk ==
    /\ pc = "done"
    /\ Len(hist) = 1
    /\ \E ver \in RoundTripVersions : DeepCall("from", ver, FALSE)

\* calls whose block rules look at the neighbours: a resolver is supplied
LookupVersions ==
    { ver \in Versions : /\ ~ver.block_entity_map
                         /\ \A id \in LayerIds : /\ ~ver.block[id].be
                                                 /\ ver.block[id].out # EntityOut }

ToUniversalWithResolver ==
    /\ pc = "idle"
    /\ \E ver \in LookupVersions \cap VersionsFor(palette) : DeepCall("to", ver, TRUE)

FromUniversalWithResolver ==
    /\ pc = "idle"
    /\ \E ver \in LookupVersions \cap VersionsFor(palette) : DeepCall("from", ver, TRUE)

(***************************************************************************)
(* The context-aware pass: get_block_at and the per-coordinate translate   *)
(***************************************************************************)
\* a plausible slip: division that truncates towards zero
ChunkDeltaTruncating(d) ==
    IF d >= 0 THEN d \div ChunkWidth ELSE -((-d) \div ChunkWidth)

\* cx = dx // 16 (Python floors)
ChunkDelta(d) == d \div ChunkWidth

\* next((be for be in block_entities if (be.x, be.y, be.z) == abs), None)
FirstBlockEntityAt(bes, abs) ==
    LET hits == { k \in 1..Len(bes) : << bes[k].x, bes[k].y, bes[k].z >> = abs }
    IN  IF hits = {} THEN NoBlockEntity ELSE bes[Min(hits)]

\* what get_block_at(pos) computes for the block at local coordinate `at`
LookupAt(at, pos, cc) ==
    LET dx == pos[1] + at[1]
        dy == pos[2] + at[2]
        dz == pos[3] + at[3]
    IN  [ valid |-> TRUE, at |-> at, pos |-> pos, cc |-> cc,
          abs |-> << dx + cc[1] * ChunkWidth, dy, dz + cc[2] * ChunkWidth >>,
          delta |-> << ChunkDelta(dx), ChunkDelta(dz) >>,
          index |-> << dx % ChunkWidth, dy, dz % ChunkWidth >>,
          resolver |-> << >>, block |-> NoneObj, be |-> NoBlockEntity ]

\* get_block_at, called by the block rule while it translates the coordinate Head(todo).
\* (A palette of (version, Block) pairs, which lines 137-140 unwrap, is not among
\* the palettes drawn here.)
GetBlockAt ==
    /\ pc = "context"
    /\ todo # << >>
    /\ \E pos \in Offsets :
         LET l == LookupAt(Head(todo), pos, chunk_c)
         IN  IF l.delta = <<0, 0>>
             THEN \* the current chunk: its grid and palette as the call found them
                  /\ l.index \in Cells
                  /\ lookup' = [ l EXCEPT
                         !.block = palette[chunk_blocks[l.index] + 1],
                         !.be = FirstBlockEntityAt(chunk_block_entities, l.abs) ]
                  /\ UNCHANGED << pc, ret >>
             ELSE \* another chunk: get_chunk_callback(cx, cz), which may fail
                  \/ /\ \E b \in NeighbourBlocks :
                          lookup' = [ l EXCEPT !.resolver = << l.delta >>, !.block = b ]
                     /\ UNCHANGED << pc, ret >>
                  \/ /\ lookup' = [ l EXCEPT !.resolver = << l.delta >> ]
                     /\ pc' = "error"
                     /\ ret' = "raised"
    /\ UNCHANGED << chunk_blocks, chunk_block_entities, chunk_c, palette, direction,
                    get_chunk_callback, version, todo, finished, palette_mappings,
                    block_mappings, output_block_entities, hist, cf, ca >>
    /\ UNCHANGED biome_vars
    /\ UNCHANGED version_vars

\* lines 172-184 for the coordinate Head(todo); after the last coordinate the commit
\* and the rest of the call follow
TranslateAt ==
    /\ pc = "context"
    /\ todo # << >>
    /\ LET c == Head(todo)
           input_block == palette[chunk_blocks[c] + 1]
       IN  \E picks \in [1..Len(input_block.layers) -> LayerIds] :
             LET r == translate(direction, version.block, input_block, TRUE, picks)
                 g == get_add_block(finished, r.block)
                 obe == IF r.be # NoBlockEntity
                        THEN Append(output_block_entities, PlacedAt(r.be, c, chunk_c))
                        ELSE output_block_entities
                 bm == Append(block_mappings, << c, g.index >>)
             IN  /\ finished' = g.blocks
                 /\ output_block_entities' = obe
                 /\ block_mappings' = bm
                 /\ ca' = Append(ca, [ at |-> c, block |-> r.block, be |-> r.be,
                                       layer_be |-> r.layer_be ])
                 /\ IF Tail(todo) = << >>
                    THEN /\ Return(direction, version.block_entity_map, palette_mappings,
                                   bm, obe, g.blocks)
                         /\ RecodeAfter(direction)
                    ELSE /\ todo' = Tail(todo)
                         /\ lookup' = NoLookup
                         /\ UNCHANGED << chunk_blocks, chunk_block_entities, palette, pc, ret,
                                         version, chunk_biomes, biome_calls >>
    /\ UNCHANGED << chunk_c, direction, get_chunk_callback, palette_mappings, hist, cf >>
    /\ UNCHANGED << biome_to, biome_from, unique_inverse_shaped, biome_in, b_pc >>
    /\ UNCHANGED version_vars

(***************************************************************************)
(* The specifications                                                      *)
(***************************************************************************)
\* the parts a specification does not exercise stay as they are
BiomeParked ==
    /\ chunk_biomes = [ shape |-> << 2 >>, data |-> << 1, 0 >> ]
    /\ biome_to = [ b \in BiomeIds |-> (b + 1) % MaxBiome ]
    /\ biome_from = [ b \in BiomeIds |-> (b + MaxBiome - 1) % MaxBiome ]
    /\ unique_inverse_shaped = FALSE
    /\ biome_calls = 0
    /\ biome_in = chunk_biomes
    /\ b_pc = "new"

VersionParked ==
    /\ max_game_version = << >>
    /\ chunk_version = 0
    /\ v_result = << >>
    /\ v_pc = "parked"

EngineParked ==
    /\ palette = << Block(<< 1 >>) >>
    /\ chunk_blocks = [ c \in Cells |-> 0 ]
    /\ chunk_c = <<0, 0>>
    /\ chunk_block_entities = << >>
    /\ pc = "parked"
    /\ direction = "none"
    /\ get_chunk_callback = FALSE
    /\ version = IdleVersion
    /\ todo = << >>
    /\ finished = << >>
    /\ palette_mappings = << >>
    /\ block_mappings = << >>
    /\ output_block_entities = << >>
    /\ lookup = NoLookup
    /\ hist = << >>
    /\ cf = << >>
    /\ ca = << >>
    /\ ret = "none"

\* Spec: one call on a decoded chunk, with block rules that decide a deferred block
\* without asking for its neighbours.  LSpec adds the rules that call get_block_at
\* (and the resolver that fails), RSpec the second call of a round trip.
Init == EngineInit /\ BiomeParked /\ VersionParked
Next == ToUniversal \/ FromUniversal \/ TranslateAt
Spec == Init /\ [][Next]_vars

VSpecInit == VInit /\ EngineParked /\ BiomeParked
VNext ==
    \/ ChunkToGameVersion /\ UNCHANGED engine_vars /\ UNCHANGED biome_vars
    \/ GameToChunkVersion /\ UNCHANGED engine_vars /\ UNCHANGED biome_vars
VSpec == VSpecInit /\ [][VNext]_vars

BSpecInit == BInit /\ EngineParked /\ VersionParked
BNext ==
    \/ BiomesToUniversal /\ UNCHANGED engine_vars /\ UNCHANGED version_vars
    \/ BiomesFromUniversal /\ UNCHANGED engine_vars /\ UNCHANGED version_vars
BSpec == BSpecInit /\ [][BNext]_vars

RNext == LoadChunk \/ SaveChunk
RSpec == Init /\ [][RNext]_vars

LNext == ToUniversalWithResolver \/ FromUniversalWithResolver \/ GetBlockAt \/ TranslateAt
LSpec == Init /\ [][LNext]_vars

(***************************************************************************)
(* Properties                                                              *)
(***************************************************************************)
\* the call in progress or just ended, and what it was given
ThisCall == hist[Len(hist)]
InBlocks == ThisCall.blocks
InPalette == ThisCall.palette
DeepDone == pc = "done" /\ hist # << >> /\ ThisCall.full
InSlots == 0..(Len(InPalette) - 1)

\* the input slots the context-free pass accepted, and the output slot recorded for each
AcceptedSlots == { palette_mappings[n][1] : n \in 1..Len(palette_mappings) }
RecordedSlot(i) ==
    palette_mappings[CHOOSE n \in 1..Len(palette_mappings) : palette_mappings[n][1] = i][2]
\* the output slot recorded for a deferred coordinate, and the block translated there
RecordedAt(c) ==
    block_mappings[CHOOSE n \in 1..Len(block_mappings) : block_mappings[n][1] = c][2]
TranslatedAt(c) == ca[CHOOSE n \in 1..Len(ca) : ca[n].at = c].block
SlotsOf(pal, b) == { k \in 1..Len(pal) : pal[k] = b }

\* the block the call translated the content of coordinate c to
OutputAt(c) ==
    IF InBlocks[c] \in AcceptedSlots THEN cf[InBlocks[c] + 1].block ELSE TranslatedAt(c)

\* C1: after a deep translate, two distinct input slots that the context-free pass
\* translated to the same output block share one slot of the returned palette: the
\* palette holds that block exactly once, and every grid coordinate that held either
\* input slot holds that one slot.  The returned palette holds no block twice, and
\* any two coordinates translated to the same block hold the same slot.
C1_PaletteDedup ==
    DeepDone =>
        /\ \A i, j \in AcceptedSlots :
              (i # j /\ cf[i + 1].block = cf[j + 1].block) =>
                  /\ Cardinality(SlotsOf(palette, cf[i + 1].block)) = 1
                  /\ \A c \in Cells :
                       InBlocks[c] \in {i, j} =>
                           SlotsOf(palette, cf[i + 1].block) = { chunk_blocks[c] + 1 }
        /\ \A m, n \in 1..Len(palette) : palette[m] = palette[n] => m = n
        /\ \A c, d \in Cells :
              OutputAt(c) = OutputAt(d) => chunk_blocks[c] = chunk_blocks[d]

C1_Witness ==
    /\ DeepDone
    /\ InBlocks[<<14, 0, 0>>] = 0
    /\ InBlocks[<<15, 0, 0>>] = 1
    /\ AcceptedSlots = {0, 1}
    /\ cf[1].block = cf[2].block
    /\ chunk_blocks[<<14, 0, 0>>] = chunk_blocks[<<15, 0, 0>>]

\* C10: after a deep translate every grid coordinate that held an accepted input
\* slot i holds the output slot recorded for i by the context-free pass, and every
\* coordinate that held a deferred slot holds the output slot of its own
\* context-aware result; either way the slot it holds is, in the returned palette,
\* the block its translation produced.  No coordinate is remapped twice.
C10_CommitCorrect ==
    DeepDone =>
        \A c \in Cells :
            /\ chunk_blocks[c] \in 0..(Len(palette) - 1)
            /\ IF InBlocks[c] \in AcceptedSlots
               THEN /\ chunk_blocks[c] = RecordedSlot(InBlocks[c])
                    /\ palette[chunk_blocks[c] + 1] = cf[InBlocks[c] + 1].block
               ELSE /\ chunk_blocks[c] = RecordedAt(c)
                    /\ palette[chunk_blocks[c] + 1] = TranslatedAt(c)

\* an accepted slot (1) whose output slot (0) is the number of a deferred input slot,
\* whose coordinate ends in another output slot
C10_Witness ==
    /\ DeepDone
    /\ InBlocks[<<14, 0, 0>>] = 0
    /\ InBlocks[<<15, 0, 0>>] = 1
    /\ AcceptedSlots = {1}
    /\ RecordedSlot(1) = 0
    /\ chunk_blocks[<<14, 0, 0>>] = 1
    /\ chunk_blocks[<<15, 0, 0>>] = 0

\* C9: the needs-context flag translate returns for a block is the OR of the flags
\* its layers' rule calls returned, and a slot is deferred (left out of the slot
\* remaps, its coordinates queued for the context-aware pass) exactly when that flag
\* is set and a neighbour resolver was supplied; without a resolver nothing is deferred.
C9_FlagAndDeferral ==
    (pc \in {"context", "done"} /\ hist # << >> /\ ThisCall.full) =>
        /\ \A i \in InSlots :
             /\ cf[i + 1].extra = (\E k \in 1..Len(cf[i + 1].layer_extra) : cf[i + 1].layer_extra[k])
             /\ (i \notin AcceptedSlots) = (cf[i + 1].extra /\ get_chunk_callback)
        /\ (pc = "context") =>
             \A k \in 1..Len(todo) : InBlocks[todo[k]] \notin AcceptedSlots
        /\ ~get_chunk_callback => (AcceptedSlots = InSlots /\ pc = "done" /\ ca = << >>)

\* a two-layer block whose layers report {false, true}, no resolver: accepted at once
C9_Witness ==
    /\ DeepDone
    /\ ~get_chunk_callback
    /\ \E i \in InSlots :
         /\ cf[i + 1].layer_extra = << FALSE, TRUE >>
         /\ cf[i + 1].extra
         /\ i \in AcceptedSlots
         /\ \E c \in Cells : InBlocks[c] = i

\* C5: a deep to_universal whose palette holds an Entity raises: the call returns
\* nothing, the grid and the palette are the ones it was given, and the block-entity
\* list is the one it was given (aliased in place before the translation began).
C5_EntityAborts ==
    (hist # << >> /\ ThisCall.full /\ ThisCall.dir = "to"
       /\ EntityObj \in Range(InPalette)) =>
        /\ pc = "error"
        /\ ret = "raised"
        /\ chunk_blocks = InBlocks
        /\ palette = InPalette
        /\ chunk_block_entities =
               AliasToUniversal(ThisCall.block_entities, version.block_entity_map)

\* the Entity is met after a slot whose translation was already accepted
C5_Witness ==
    /\ pc = "error"
    /\ ThisCall.dir = "to"
    /\ ThisCall.full
    /\ Len(InPalette) = 2
    /\ InPalette[2] = EntityObj
    /\ \E c \in Cells : InBlocks[c] = 1
    /\ chunk_blocks = InBlocks

\* C4 (as claimed): from_universal's translate, given an Entity, returns it in the
\* list of produced entities.
C4_EntityPassedThrough ==
    (pc \in {"context", "done"} /\ hist # << >> /\ ThisCall.full /\ ThisCall.dir = "from") =>
        \A i \in InSlots :
            InPalette[i + 1] = EntityObj => EntityObj \in Range(cf[i + 1].entities)

\* C3: a chunk whose palette holds only distinct, non-layered, context-free blocks,
\* taken through a deep to_universal and then a deep from_universal, both with
\* identity block rules, holds at every grid coordinate the block it held before.
SingleLayerBlocks(pal) ==
    \A k \in 1..Len(pal) : pal[k].kind = "Block" /\ Len(pal[k].layers) = 1

C3_RoundTrip ==
    (pc = "done" /\ Len(hist) = 2
       /\ hist[1].dir = "to" /\ hist[1].full /\ hist[1].identity /\ hist[1].context_free
       /\ hist[2].dir = "from" /\ hist[2].full /\ hist[2].identity /\ hist[2].context_free
       /\ SingleLayerBlocks(hist[1].palette)) =>
        \A c \in Cells :
            /\ chunk_blocks[c] \in 0..(Len(palette) - 1)
            /\ palette[chunk_blocks[c] + 1] = hist[1].palette[hist[1].blocks[c] + 1]

C3_Witness ==
    /\ pc = "done"
    /\ Len(hist) = 2
    /\ hist[1].identity /\ hist[1].context_free
    /\ hist[2].identity /\ hist[2].context_free
    /\ hist[1].palette = << Block(<< 2 >>), Block(<< 1 >>) >>
    /\ hist[1].blocks[<<14, 0, 0>>] = 1
    /\ hist[1].blocks[<<15, 0, 0>>] = 0
    /\ palette[chunk_blocks[<<14, 0, 0>>] + 1] = Block(<< 1 >>)

\* C2: get_block_at, for the block at local (x, y, z) of chunk (cx, cz) and offset
\* (dx, dy, dz), takes as chunk delta the floors of (x+dx)/16 and (z+dz)/16 and
\* probes the absolute coordinate (x+dx+cx*16, y+dy, z+dz+cz*16); it calls the
\* neighbour resolver with exactly that delta when the delta is not (0, 0) and does
\* not call it otherwise.  Local (15, y, 0) of chunk (2, 5) with offset (1, 0, 0)
\* calls the resolver with (1, 0) and probes (48, y, 80).
IsFloorDiv16(q, n) == 16 * q <= n /\ n < 16 * q + 16

C2_NeighbourArithmetic ==
    lookup.valid =>
        LET sx == lookup.at[1] + lookup.pos[1]
            sy == lookup.at[2] + lookup.pos[2]
            sz == lookup.at[3] + lookup.pos[3]
        IN  /\ IsFloorDiv16(lookup.delta[1], sx)
            /\ IsFloorDiv16(lookup.delta[2], sz)
            /\ lookup.abs = << sx + lookup.cc[1] * 16, sy, sz + lookup.cc[2] * 16 >>
            /\ lookup.cc = chunk_c
            /\ (lookup.delta # <<0, 0>>) => lookup.resolver = << lookup.delta >>
            /\ (lookup.delta = <<0, 0>>) => lookup.resolver = << >>
            /\ (lookup.at[1] = 15 /\ lookup.at[3] = 0 /\ lookup.cc = <<2, 5>>
                  /\ lookup.pos = <<1, 0, 0>>) =>
                   /\ lookup.resolver = << <<1, 0>> >>
                   /\ lookup.abs = << 48, lookup.at[2], 80 >>

C2_Witness ==
    /\ lookup.valid
    /\ lookup.at = <<15, 0, 0>>
    /\ lookup.cc = <<2, 5>>
    /\ lookup.pos = <<1, 0, 0>>
    /\ lookup.resolver = << <<1, 0>> >>
    /\ lookup.abs = <<48, 0, 80>>
    /\ pc = "context"

\* the order of game versions, written out for tuples of four components
Earlier4(a, b) ==
    \E k \in 1..4 : a[k] < b[k] /\ \A n \in 1..(k - 1) : a[n] = b[n]
AtMost4(a, b) == a = b \/ Earlier4(a, b)

ComponentwiseMin4(a, b) == [ k \in 1..4 |-> IF a[k] <= b[k] THEN a[k] ELSE b[k] ]

\* C6 (as claimed): chunk_to_game_version returns the componentwise minimum of
\* max_game_version and the table's maximum game version for the chunk version.
C6_ComponentwiseMinimum ==
    v_pc = "chunk_to_game" =>
        v_result = ComponentwiseMin4(max_game_version, TableLast(chunk_version))

\* C6 (amended): chunk_to_game_version returns whichever of max_game_version and the
\* table's maximum game version for the chunk version comes first in the order of
\* versions (tuple order: the first differing component decides), whole; and
\* chunk_to_game_version((1,20,0,0), 15) is (1,20,0,0).
C6_EarlierVersion ==
    v_pc = "chunk_to_game" =>
        /\ v_result \in { max_game_version, TableLast(chunk_version) }
        /\ AtMost4(v_result, max_game_version)
        /\ AtMost4(v_result, TableLast(chunk_version))
        /\ (max_game_version = <<1, 20, 0, 0>> /\ chunk_version = 15) =>
               v_result = <<1, 20, 0, 0>>

\* the two minima differ: (1,12,0,0) against chunk version 14's (1,11,999,999)
C6_Witness ==
    /\ v_pc = "chunk_to_game"
    /\ max_game_version = <<1, 12, 0, 0>>
    /\ chunk_version = 14
    /\ v_result = <<1, 11, 999, 999>>
    /\ v_result # ComponentwiseMin4(max_game_version, TableLast(chunk_version))

\* C7: game_to_chunk_version returns the lowest chunk version whose inclusive
\* [min, max] range of game versions contains the input (4 for the range chunk
\* versions 4 and 5 share, 6 for the one 6 and 7 share), nothing when no range
\* contains it, and 13 for (1,11,1,0).
Contains4(cv, gv) == AtMost4(TableFirst(cv), gv) /\ AtMost4(gv, TableLast(cv))

C7_FirstMatch ==
    v_pc = "game_to_chunk" =>
        LET matches == { cv \in 0..15 : Contains4(cv, max_game_version) }
        IN  /\ matches = {} => v_result = NoVersion
            /\ matches # {} =>
                   /\ v_result \in matches
                   /\ \A cv \in matches : v_result <= cv
            /\ max_game_version = <<1, 11, 1, 0>> => v_result = 13
            /\ max_game_version = <<0, 18, 0, 0>> => v_result = 4
            /\ max_game_version = <<1, 2, 0, 0>> => v_result = 6

C7_Witness ==
    /\ v_pc = "game_to_chunk"
    /\ max_game_version = <<1, 11, 1, 0>>
    /\ v_result = 13

\* C8 (as claimed): recoding a two-dimensional biome array to universal and back with
\* mutually inverse mapping functions gives the array back, shape and cells, and each
\* recoding calls the mapping function once per distinct value of its array.
MutuallyInverse == \A b \in BiomeIds : biome_from[biome_to[b]] = b /\ biome_to[biome_from[b]] = b

C8_BiomeRoundTrip ==
    (MutuallyInverse /\ Len(biome_in.shape) = 2) =>
        /\ b_pc = "back" => (chunk_biomes.shape = biome_in.shape /\ chunk_biomes.data = biome_in.data)
        /\ b_pc = "universal" => biome_calls = Cardinality(Range(biome_in.data))
        /\ b_pc = "back" => biome_calls = Cardinality(Range(chunk_biomes.data))

\* what translate returned for the content of coordinate c in the pass that settled
\* it: the context-free result of its slot, or its own context-aware result
ResultAt(c) ==
    IF InBlocks[c] \in AcceptedSlots
    THEN cf[InBlocks[c] + 1]
    ELSE ca[CHOOSE n \in 1..Len(ca) : ca[n].at = c]

\* the companion the rule returned for the depth-0 layer (none for a non-block)
BaseCompanion(r) == IF r.layer_be = << >> THEN NoBlockEntity ELSE r.layer_be[1]

AbsoluteAt(c) == << c[1] + chunk_c[1] * 16, c[2], c[3] + chunk_c[2] * 16 >>

EntitiesAt(bes, p) == { k \in 1..Len(bes) : << bes[k].x, bes[k].y, bes[k].z >> = p }

\* C11: after a deep translate the chunk's block-entity list is not the one it was
\* given: it holds exactly one block entity for each grid coordinate (x, y, z) whose
\* translation (context-free for an accepted slot, context-aware for a deferred one)
\* produced a companion, at (x + cx*16, y, z + cz*16), and nothing for any other
\* coordinate and nothing else; the companion is the one the depth-0 layer's rule
\* returned, whatever the deeper layers returned.  (from_universal renames the
\* entities of the new list afterwards; the positions and the count stay.)
C11_BlockEntityRebuild ==
    DeepDone =>
        /\ \A c \in Cells :
             LET r == ResultAt(c)
                 hits == EntitiesAt(chunk_block_entities, AbsoluteAt(c))
             IN  /\ r.be = BaseCompanion(r)
                 /\ IF BaseCompanion(r) = NoBlockEntity
                    THEN hits = {}
                    ELSE /\ Cardinality(hits) = 1
                         /\ \A k \in hits :
                              /\ chunk_block_entities[k].of = BaseCompanion(r).of
                              /\ ThisCall.dir = "to" =>
                                   chunk_block_entities[k].name = BaseCompanion(r).name
        /\ Len(chunk_block_entities) =
               Cardinality({ c \in Cells : BaseCompanion(ResultAt(c)) # NoBlockEntity })

\* a chunk that came with a block entity at (14, 0, 0); that coordinate holds a
\* deferred two-layer block whose layers returned different companions, the other
\* coordinate an accepted block with a companion: the new list holds two entities
C11_Witness ==
    /\ DeepDone
    /\ ThisCall.block_entities # << >>
    /\ InBlocks[<<14, 0, 0>>] \notin AcceptedSlots
    /\ InBlocks[<<15, 0, 0>>] \in AcceptedSlots
    /\ Len(ResultAt(<<14, 0, 0>>).layer_be) = 2
    /\ ResultAt(<<14, 0, 0>>).layer_be[1] # NoBlockEntity
    /\ ResultAt(<<14, 0, 0>>).layer_be[2] # NoBlockEntity
    /\ ResultAt(<<14, 0, 0>>).layer_be[1] # ResultAt(<<14, 0, 0>>).layer_be[2]
    /\ ResultAt(<<14, 0, 0>>).be # cf[InBlocks[<<14, 0, 0>>] + 1].be
    /\ ResultAt(<<15, 0, 0>>).be # NoBlockEntity
    /\ Len(chunk_block_entities) = 2
    /\ EntitiesAt(chunk_block_entities, AbsoluteAt(<<14, 0, 0>>)) # {}

====
